---------------------------- MODULE Spec2Model ----------------------------
(***************************************************************************)
(* Model of tools/subunit-trace.py: the Name Normalizer                    *)
(* (cleanup_test_name), the Duration Formatter (get_duration), the Worker  *)
(* Resolver (find_worker), the Attachment Printer (print_attachments), the *)
(* Start Tracker (class Starts), the Outcome Aggregator (show_outcome) and *)
(* the Run Driver (main).                                                  *)
(*                                                                         *)
(* Representation.  A Python string is a sequence of tokens; a token is a  *)
(* delimiter character ("[", "]", "(", ")", ":", "\n") or a run of         *)
(* characters holding none of them.  The empty string is << >>.  A         *)
(* datetime is a record [day, sec, us] as CPython keeps it (day number,    *)
(* second of the day, microsecond).  Python's None has one value per type, *)
(* since TLC compares values of one type only: None for a status, NoTime   *)
(* for a datetime, NoTags for a tag collection, << >> for a test id, a     *)
(* file name and file bytes (where the code tests only their truth, or     *)
(* where the decoder never sends the empty string).  Every stream.write(s) *)
(* appends one element to output: the written string as the tuple of the   *)
(* pieces that the format expression puts together.                        *)
(***************************************************************************)
EXTENDS Integers, Sequences, FiniteSets, TLC

VARIABLES
    pc,          \* position of the program under the specification at hand
    arg,         \* the arguments of the pure function under check
    ret,         \* the values it returned, oldest first
    output,      \* sys.stdout: the writes so far, oldest first
    neednewline, \* Starts._neednewline
    emitted,     \* Starts._emitted
    inprogress,  \* StreamToDict._inprogress (the record builder)
    FAILS,       \* module global FAILS
    RESULTS,     \* module global RESULTS
    errors,      \* StreamSummary: len(failures) + len(errors)
    exitStatus,  \* the values main() returned so far: << >>, then <<value>>
    stream,      \* the events read so far, oldest first
    records      \* the records handed to show_outcome so far, oldest first

vars == <<pc, arg, ret, output, neednewline, emitted, inprogress, FAILS,
          RESULTS, errors, exitStatus, stream, records>>

None == "None"
NoTime == [day |-> -1, sec |-> 0, us |-> 0]
NoTags == << <<"None">> >>

----------------------------------------------------------------------------
(* Python helpers *)

\* s.find(c): the 0-based index of the first occurrence of c, -1 if none.
Find(s, c) ==
    IF \E i \in 1..Len(s) : s[i] = c
    THEN (CHOOSE i \in 1..Len(s) : s[i] = c /\ \A j \in 1..(i-1) : s[j] # c) - 1
    ELSE -1

\* s[:n] for 0 <= n.
SliceTo(s, n) == SubSeq(s, 1, IF n > Len(s) THEN Len(s) ELSE n)

\* s[n:] for 0 <= n.
SliceFrom(s, n) == SubSeq(s, n + 1, Len(s))

\* The 1-based positions of c in s.
Positions(s, c) == {i \in 1..Len(s) : s[i] = c}

\* The least and the greatest of a non-empty set of integers.
Least(S) == CHOOSE i \in S : \A j \in S : i <= j
Greatest(S) == CHOOSE i \in S : \A j \in S : i >= j

\* s.split(sep): the pieces of s between the occurrences of sep.
RECURSIVE Split(_, _)
Split(s, sep) ==
    LET i == Find(s, sep)
    IN  IF i < 0 THEN <<s>>
        ELSE <<SliceTo(s, i)>> \o Split(SliceFrom(s, i + 1), sep)

\* The decimal digit characters, and the digit a character spells.
DigitChars == <<"0", "1", "2", "3", "4", "5", "6", "7", "8", "9">>
DigitOf(c) == (CHOOSE i \in 1..10 : DigitChars[i] = c) - 1
IsDigit(c) == \E i \in 1..10 : DigitChars[i] = c

\* int(d): the number a string of decimal digits spells.
RECURSIVE DigitsValue(_)
DigitsValue(d) ==
    IF d = << >> THEN 0
    ELSE DigitsValue(SubSeq(d, 1, Len(d) - 1)) * 10 + DigitOf(d[Len(d)])

\* '%d' % n (also str(n)): the decimal digits of n, with a sign if n < 0.
RECURSIVE DecStr(_)
DecStr(n) ==
    IF n < 0 THEN <<"-">> \o DecStr(0 - n)
    ELSE IF n < 10 THEN <<DigitChars[n + 1]>>
    ELSE DecStr(n \div 10) \o <<DigitChars[(n % 10) + 1]>>

\* len(s) of a string of the tokens that attachment titles are made of.
TokenLen(tok) ==
    CASE tok = "Captured " -> 9
      [] tok = "stdout" -> 6
      [] tok = "stderr" -> 6
      [] tok = "reason" -> 6
      [] tok = "traceback" -> 9
      [] tok = "pythonlogging" -> 13
      [] tok = "''" -> 2
      [] OTHER -> 1

RECURSIVE StrLen(_)
StrLen(s) == IF s = << >> THEN 0 ELSE TokenLen(Head(s)) + StrLen(Tail(s))

----------------------------------------------------------------------------
(* Name Normalizer *)

\* One stripping rule of cleanup_test_name (lines 93-98 and 101-106).
StripSpanNoPosGuard(name, open, close) ==
    LET tags_start == Find(name, open)
        tags_end == Find(name, close)
    IN  IF tags_start >= 0 /\ tags_end > tags_start
        THEN SliceTo(name, tags_start) \o SliceFrom(name, tags_end + 1)
        ELSE name

StripSpanNoEndGuard(name, open, close) ==
    LET tags_start == Find(name, open)
        tags_end == Find(name, close)
    IN  IF tags_start > 0
        THEN SliceTo(name, tags_start) \o SliceFrom(name, tags_end + 1)
        ELSE name

StripSpan(name, open, close) ==
    LET tags_start == Find(name, open)
        tags_end == Find(name, close)
    IN  IF tags_start > 0 /\ tags_end > tags_start
        THEN SliceTo(name, tags_start) \o SliceFrom(name, tags_end + 1)
        ELSE name

cleanup_test_name(name, strip_tags, strip_scenarios) ==
    LET n1 == IF strip_tags THEN StripSpan(name, "[", "]") ELSE name
    IN  IF strip_scenarios THEN StripSpan(n1, "(", ")") ELSE n1

----------------------------------------------------------------------------
(* Duration Formatter *)

DAY_SECONDS == 86400
MICROS == 1000000

\* datetime.__sub__: the timedelta end - start, normalized as CPython does
\* (0 <= seconds < 86400, 0 <= microseconds < 1000000, days of any sign).
TimeDelta(end, start) ==
    LET us == end.us - start.us
        s  == (end.sec - start.sec) + (us \div MICROS)
        d  == (end.day - start.day) + (s \div DAY_SECONDS)
    IN  [days |-> d, seconds |-> s % DAY_SECONDS, microseconds |-> us % MICROS]

\* '%06d' % n for 0 <= n < 10^6: the six decimal digits, zero-padded.
Pad6(n) ==
    [i \in 1..6 |->
        CASE i = 1 -> DigitChars[((n \div 100000) % 10) + 1]
          [] i = 2 -> DigitChars[((n \div 10000) % 10) + 1]
          [] i = 3 -> DigitChars[((n \div 1000) % 10) + 1]
          [] i = 4 -> DigitChars[((n \div 100) % 10) + 1]
          [] i = 5 -> DigitChars[((n \div 10) % 10) + 1]
          [] i = 6 -> DigitChars[(n % 10) + 1]]

get_duration_NoDays(timestamps) ==
    LET start == timestamps[1]
        end == timestamps[2]
    IN  IF start = NoTime \/ end = NoTime
        THEN << >>
        ELSE LET delta == TimeDelta(end, start)
             IN  DecStr(delta.seconds) \o <<".">>
                 \o Pad6(delta.microseconds) \o <<"s">>

\* get_duration: '' or '%d.%06ds' % (days * DAY_SECONDS + seconds, micros).
get_duration(timestamps) ==
    LET start == timestamps[1]
        end == timestamps[2]
    IN  IF start = NoTime \/ end = NoTime
        THEN << >>
        ELSE LET delta == TimeDelta(end, start)
             IN  DecStr(delta.days * DAY_SECONDS + delta.seconds) \o <<".">>
                 \o Pad6(delta.microseconds) \o <<"s">>

----------------------------------------------------------------------------
(* Worker Resolver *)

\* tag.startswith('worker-') and tag[7:]: the prefix is a token of its own.
IsWorkerTag(tag) == Len(tag) >= 1 /\ tag[1] = "worker-"
TagRest(tag) == Tail(tag)

\* The value find_worker returns when no tag names a worker ('NaN').
NaN == -1

\* find_worker: the first worker- tag in iteration order, as an int.
find_worker(test) ==
    LET ws == {i \in 1..Len(test.tags) : IsWorkerTag(test.tags[i])}
    IN  IF ws = {} THEN NaN
        ELSE DigitsValue(TagRest(test.tags[Least(ws)]))

\* '%s' % worker.
WorkerStr(worker) == IF worker = NaN THEN <<"NaN">> ELSE DecStr(worker)

----------------------------------------------------------------------------
(* Attachment Printer *)

\* '~' * n.
Tildes(n) == [i \in 1..n |-> "~"]

\* What print_attachments writes for one attachment that it prints: the
\* titled block (line 146), then one write per line of the text (150).
AttachmentBlock(name, text) ==
    LET title == <<"Captured ">> \o name \o <<":">>
        lines == Split(text, "\n")
    IN  << <<"\n">> \o title \o <<"\n">> \o Tildes(StrLen(title)) \o <<"\n">> >>
        \o [i \in 1..Len(lines) |-> <<"    ">> \o lines[i] \o <<"\n">>]

PrintedFullName(detail, all_channels) ==
    (all_channels \/ detail.name \in {<<"stdout">>, <<"stderr">>})
    /\ detail.text # << >>

\* The condition of line 144 on one attachment.
Printed(detail, all_channels) ==
    LET name == Split(detail.name, ":")[1]
    IN  (all_channels \/ name \in {<<"stdout">>, <<"stderr">>})
        /\ detail.text # << >>

\* print_attachments: the writes, over test['details'] in iteration order.
RECURSIVE PrintDetails(_, _)
PrintDetails(details, all_channels) ==
    IF details = << >> THEN << >>
    ELSE (IF Printed(Head(details), all_channels)
          THEN AttachmentBlock(Split(Head(details).name, ":")[1],
                               Head(details).text)
          ELSE << >>)
         \o PrintDetails(Tail(details), all_channels)

print_attachments(test, all_channels) == PrintDetails(test.details, all_channels)

----------------------------------------------------------------------------
(* Outcome Aggregator *)

\* test['details'][name], and whether the key is there.
HasDetail(test, name) == \E i \in 1..Len(test.details) : test.details[i].name = name
Detail(test, name) ==
    test.details[CHOOSE i \in 1..Len(test.details) : test.details[i].name = name]

OutcomeLineStatusDropped(worker, name, duration, word) ==
    <<"{">> \o WorkerStr(worker) \o <<"} ">> \o name \o <<" [">> \o duration
    \o <<"] ... ", IF word \in {"ok", "FAILED"} THEN word ELSE "unknown", "\n">>

\* The first line show_outcome writes for a record (lines 173, 178, 185).
OutcomeLine(worker, name, duration, word) ==
    <<"{">> \o WorkerStr(worker) \o <<"} ">> \o name \o <<" [">> \o duration
    \o <<"] ... ", word, "\n">>

\* The line of a skipped record (line 182).
SkipLine(worker, name, reason) ==
    <<"{">> \o WorkerStr(worker) \o <<"} ">> \o name \o <<" ... SKIPPED: ">>
    \o reason \o <<"\n">>

BucketedUnlessReturncode(R, worker, test) ==
    IF cleanup_test_name(test.id, TRUE, FALSE) = <<"process-returncode">>
    THEN R
    ELSE LET R1 == IF worker \in DOMAIN R THEN R ELSE R @@ (worker :> << >>)
         IN  [R1 EXCEPT ![worker] = Append(@, test)]

BucketCreatedOnly(R, worker, test) ==
    IF worker \in DOMAIN R THEN R ELSE R @@ (worker :> << >>)

\* RESULTS after lines 164-166.
Bucketed(R, worker, test) ==
    LET R1 == IF worker \in DOMAIN R THEN R ELSE R @@ (worker :> << >>)
    IN  [R1 EXCEPT ![worker] = Append(@, test)]

FailedNotRecorded(F, test) == F

FailedPrepended(F, test) == <<test>> \o F

\* FAILS after line 177.
Failed(F, test) == Append(F, test)

show_outcome_ExistsBucketed(F, R, test) ==
    LET status == test.status
        worker == find_worker(test)
        name == cleanup_test_name(test.id, TRUE, FALSE)
        duration == get_duration(test.timestamps)
        R2 == Bucketed(R, worker, test)
    IN  IF status = "exists"
        THEN [FAILS |-> F, RESULTS |-> R2, writes |-> << >>, raised |-> FALSE]
        ELSE IF name = <<"process-returncode">>
        THEN [FAILS |-> F, RESULTS |-> R2, writes |-> << >>, raised |-> FALSE]
        ELSE IF status = "success"
        THEN [FAILS |-> F, RESULTS |-> R2,
              writes |-> <<OutcomeLine(worker, name, duration, "ok")>>
                         \o print_attachments(test, FALSE),
              raised |-> FALSE]
        ELSE IF status = "fail"
        THEN [FAILS |-> Failed(F, test), RESULTS |-> R2,
              writes |-> <<OutcomeLine(worker, name, duration, "FAILED")>>
                         \o print_attachments(test, TRUE),
              raised |-> FALSE]
        ELSE IF status = "skip"
        THEN IF HasDetail(test, <<"reason">>)
             THEN [FAILS |-> F, RESULTS |-> R2,
                   writes |-> <<SkipLine(worker, name,
                                         Detail(test, <<"reason">>).text)>>,
                   raised |-> FALSE]
             ELSE [FAILS |-> F, RESULTS |-> R2, writes |-> << >>,
                   raised |-> TRUE]
        ELSE [FAILS |-> F, RESULTS |-> R2,
              writes |-> <<OutcomeLine(worker, name, duration, status)>>
                         \o print_attachments(test, TRUE),
              raised |-> FALSE]

\* show_outcome(stream, test) with FAILS = F and RESULTS = R: the new FAILS
\* and RESULTS, the writes to the stream, and whether it raised (KeyError
\* on test['details']['reason'], line 183).
show_outcome(F, R, test) ==
    LET status == test.status
        worker == find_worker(test)
        name == cleanup_test_name(test.id, TRUE, FALSE)
        duration == get_duration(test.timestamps)
        R2 == Bucketed(R, worker, test)
    IN  IF status = "exists"
        THEN [FAILS |-> F, RESULTS |-> R, writes |-> << >>, raised |-> FALSE]
        ELSE IF name = <<"process-returncode">>
        THEN [FAILS |-> F, RESULTS |-> R2, writes |-> << >>, raised |-> FALSE]
        ELSE IF status = "success"
        THEN [FAILS |-> F, RESULTS |-> R2,
              writes |-> <<OutcomeLine(worker, name, duration, "ok")>>
                         \o print_attachments(test, FALSE),
              raised |-> FALSE]
        ELSE IF status = "fail"
        THEN [FAILS |-> Failed(F, test), RESULTS |-> R2,
              writes |-> <<OutcomeLine(worker, name, duration, "FAILED")>>
                         \o print_attachments(test, TRUE),
              raised |-> FALSE]
        ELSE IF status = "skip"
        THEN IF HasDetail(test, <<"reason">>)
             THEN [FAILS |-> F, RESULTS |-> R2,
                   writes |-> <<SkipLine(worker, name,
                                         Detail(test, <<"reason">>).text)>>,
                   raised |-> FALSE]
             ELSE [FAILS |-> F, RESULTS |-> R2, writes |-> << >>,
                   raised |-> TRUE]
        ELSE [FAILS |-> F, RESULTS |-> R2,
              writes |-> <<OutcomeLine(worker, name, duration, status)>>
                         \o print_attachments(test, TRUE),
              raised |-> FALSE]

----------------------------------------------------------------------------
(* Start Tracker *)

\* '%02d' % n for 0 <= n < 100.
Pad2(n) == <<DigitChars[(n \div 10) + 1], DigitChars[(n % 10) + 1]>>

\* timestamp.isoformat(): date, "T", HH:MM:SS, and .ffffff unless it is 0.
\* The calendar date is written as the day number.
Isoformat(t) ==
    DecStr(t.day) \o <<"T">> \o Pad2(t.sec \div 3600) \o <<":">>
    \o Pad2((t.sec \div 60) % 60) \o <<":">> \o Pad2(t.sec % 60)
    \o (IF t.us = 0 THEN << >> ELSE <<".">> \o Pad6(t.us))

\* The label of lines 69-72: the loop has no break, the last worker- tag
\* in iteration order stays.
StartsWorkerLabel(test_tags) ==
    LET tags == IF test_tags = NoTags THEN << >> ELSE test_tags
        ws == {i \in 1..Len(tags) : IsWorkerTag(tags[i])}
    IN  IF ws = {} THEN << >>
        ELSE <<"(">> \o TagRest(tags[Greatest(ws)]) \o <<") ">>

\* '%s: %s%s [start]\n' % (timestr, worker, test_id).
StartLine(timestr, worker, test_id) ==
    timestr \o <<": ">> \o worker \o test_id \o <<" [start]", "\n">>

StartsStatusNoEmittedCheck(nn, em, ev) ==
    IF ev.test_id = << >>
    THEN IF ev.file_bytes = << >>
         THEN [neednewline |-> nn, emitted |-> em, writes |-> << >>]
         ELSE LET text == ev.file_bytes
              IN  [neednewline |->
                       IF text # << >> /\ text[Len(text)] \notin {"\r", "\n"}
                       THEN TRUE ELSE nn,
                   emitted |-> em,
                   writes |-> <<text>>]
    ELSE IF ev.test_status = "inprogress"
    THEN LET worker == StartsWorkerLabel(ev.test_tags)
             timestr == IF ev.timestamp # NoTime
                        THEN Isoformat(ev.timestamp) ELSE << >>
         IN  [neednewline |-> FALSE,
              emitted |-> em \cup {ev.test_id},
              writes |-> (IF nn THEN << <<"\n">> >> ELSE << >>)
                         \o (IF ev.timestamp # NoTime THEN << >>
                             ELSE <<StartLine(timestr, worker, ev.test_id)>>)]
    ELSE [neednewline |-> nn, emitted |-> em, writes |-> << >>]

StartsStatusFlushOnAny(nn, em, ev) ==
    IF ev.test_id = << >>
    THEN IF ev.file_bytes = << >>
         THEN [neednewline |-> nn, emitted |-> em, writes |-> << >>]
         ELSE LET text == ev.file_bytes
              IN  [neednewline |->
                       IF text # << >> /\ text[Len(text)] \notin {"\r", "\n"}
                       THEN TRUE ELSE nn,
                   emitted |-> em,
                   writes |-> <<text>>]
    ELSE IF ev.test_status = "inprogress" /\ ev.test_id \notin em
    THEN LET worker == StartsWorkerLabel(ev.test_tags)
             timestr == IF ev.timestamp # NoTime
                        THEN Isoformat(ev.timestamp) ELSE << >>
         IN  [neednewline |-> FALSE,
              emitted |-> em \cup {ev.test_id},
              writes |-> (IF nn THEN << <<"\n">> >> ELSE << >>)
                         \o (IF ev.timestamp # NoTime THEN << >>
                             ELSE <<StartLine(timestr, worker, ev.test_id)>>)]
    ELSE [neednewline |-> FALSE, emitted |-> em,
          writes |-> IF nn THEN << <<"\n">> >> ELSE << >>]

\* Starts.status with _neednewline = nn and _emitted = em: their new values
\* and the writes to the output.  The write of the start line (77-78) is
\* inside the else branch of `if timestamp` (73-76).
StartsStatus(nn, em, ev) ==
    IF ev.test_id = << >>
    THEN IF ev.file_bytes = << >>
         THEN [neednewline |-> nn, emitted |-> em, writes |-> << >>]
         ELSE LET text == ev.file_bytes
              IN  [neednewline |->
                       IF text # << >> /\ text[Len(text)] \notin {"\r", "\n"}
                       THEN TRUE ELSE nn,
                   emitted |-> em,
                   writes |-> <<text>>]
    ELSE IF ev.test_status = "inprogress" /\ ev.test_id \notin em
    THEN LET worker == StartsWorkerLabel(ev.test_tags)
             timestr == IF ev.timestamp # NoTime
                        THEN Isoformat(ev.timestamp) ELSE << >>
         IN  [neednewline |-> FALSE,
              emitted |-> em \cup {ev.test_id},
              writes |-> (IF nn THEN << <<"\n">> >> ELSE << >>)
                         \o (IF ev.timestamp # NoTime THEN << >>
                             ELSE <<StartLine(timestr, worker, ev.test_id)>>)]
    ELSE [neednewline |-> nn, emitted |-> em, writes |-> << >>]

----------------------------------------------------------------------------
(* The record builder (testtools.StreamToDict, line 214) and the summary   *)
(* (testtools.StreamSummary, line 216), as main wires them.                *)

\* StreamToDict._ensure_key: the record of a test id seen for the first time.
NewCase(test_id, timestamp) ==
    [id |-> test_id, tags |-> << >>, details |-> << >>, status |-> "unknown",
     timestamps |-> <<timestamp, NoTime>>]

\* case['details'] after the attachment of an event is added to it.
WithDetail(details, file_name, file_bytes) ==
    IF \E i \in 1..Len(details) : details[i].name = file_name
    THEN [i \in 1..Len(details) |->
             IF details[i].name = file_name
             THEN [details[i] EXCEPT !.text = @ \o file_bytes]
             ELSE details[i]]
    ELSE Append(details, [name |-> file_name, text |-> file_bytes])

\* StreamToDict.status: the fields of the record that the event updates.
UpdateCase(case, ev) ==
    [case EXCEPT
        !.status = IF ev.test_status # None THEN ev.test_status ELSE @,
        !.timestamps = <<@[1], ev.timestamp>>,
        !.details = IF ev.file_name # << >>
                    THEN WithDetail(@, ev.file_name, ev.file_bytes) ELSE @,
        !.tags = IF ev.test_tags # NoTags THEN ev.test_tags ELSE @]

\* The record of the event's test id after the event.
CaseAfter(ev) ==
    UpdateCase(IF ev.test_id \in DOMAIN inprogress
               THEN inprogress[ev.test_id]
               ELSE NewCase(ev.test_id, ev.timestamp), ev)

\* A status that completes a record: any but None and 'inprogress'.
Final(ev) == ev.test_id # << >> /\ ev.test_status \notin {None, "inprogress"}

\* StreamSummary._gather_test: what the record adds to its errors.
SummaryErrors(case) ==
    IF case.status \in {"fail", "unknown", "inprogress"} THEN 1 ELSE 0

ExitStatusFromFails(F, e) == IF F = << >> THEN 0 ELSE 1

\* main's return value (line 223): summary.wasSuccessful() decides it.
ExitStatus(F, e) == IF e = 0 THEN 0 ELSE 1

----------------------------------------------------------------------------
(* The run's state at the start of main: FAILS and RESULTS as the module    *)
(* sets them at import (29-30), Starts after startTestRun (39-41), nothing  *)
(* read or written yet.                                                     *)

FreshRun ==
    /\ output = << >>
    /\ neednewline = FALSE
    /\ emitted = {}
    /\ inprogress = << >>
    /\ FAILS = << >>
    /\ RESULTS = << >>
    /\ errors = 0
    /\ exitStatus = << >>
    /\ stream = << >>
    /\ records = << >>

runVars == <<output, neednewline, emitted, inprogress, FAILS, RESULTS, errors,
             exitStatus, stream, records>>

----------------------------------------------------------------------------
(* SpecName: cleanup_test_name applied to every identifier of at most      *)
(* MaxLen characters over NameChars, under every setting of the switches,  *)
(* and applied again to what it returned.                                  *)

MaxLen == 5
NameChars == {"a", "b", "[", "]", "(", ")"}
Names == UNION {[1..n -> NameChars] : n \in 0..MaxLen}

InitName ==
    /\ pc = "call"
    /\ arg \in Names \X BOOLEAN \X BOOLEAN
    /\ ret = << >>
    /\ FreshRun

Normalize ==
    /\ pc = "call"
    /\ ret' = <<cleanup_test_name(arg[1], arg[2], arg[3])>>
    /\ pc' = "once"
    /\ UNCHANGED <<arg, runVars>>

Renormalize ==
    /\ pc = "once"
    /\ ret' = Append(ret, cleanup_test_name(ret[1], arg[2], arg[3]))
    /\ pc' = "twice"
    /\ UNCHANGED <<arg, runVars>>

NextName == Normalize \/ Renormalize

SpecName == InitName /\ [][NextName]_vars

----------------------------------------------------------------------------
(* SpecDur: get_duration applied to every pair of timestamps of Times.     *)

MaxDay == 1
Times == [day : 0..MaxDay, sec : {0, 1, DAY_SECONDS - 1},
          us : {0, 1, MICROS - 1}]

InitDur ==
    /\ pc = "call"
    /\ arg \in (Times \cup {NoTime}) \X (Times \cup {NoTime})
    /\ ret = << >>
    /\ FreshRun

Format ==
    /\ pc = "call"
    /\ ret' = <<get_duration(arg)>>
    /\ pc' = "formatted"
    /\ UNCHANGED <<arg, runVars>>

NextDur == Format

SpecDur == InitDur /\ [][NextDur]_vars

----------------------------------------------------------------------------
(* The inputs of the run: test ids, tags, timestamps, attachments *)

TestA == <<"test_a">>
TestB == <<"test_b", "[", "smoke", "]">>
ProcRc == <<"process-returncode">>
ProcRcTagged == <<"process-returncode", "[", "x", "]">>

W0 == <<"worker-", "0">>
W1 == <<"worker-", "1">>
Smoke == <<"smoke">>

T1 == [day |-> 0, sec |-> 1, us |-> 0]
T2 == [day |-> 0, sec |-> 2, us |-> 0]

NoFile == [name |-> << >>, text |-> << >>]
Traceback == [name |-> <<"traceback">>, text |-> <<"Traceback", "\n", "boom">>]
Reason == [name |-> <<"reason">>, text |-> <<"why">>]
Stdout == [name |-> <<"stdout">>, text |-> <<"out">>]

\* One call of status(): the arguments that main's observers read.
Event(id, status, tags, ts, file) ==
    [test_id |-> id, test_status |-> status, test_tags |-> tags,
     timestamp |-> ts, file_name |-> file.name, file_bytes |-> file.text]

\* Bytes outside any test (ByteStreamToStreamResult sends them under
\* non_subunit_name, line 212).
FreeForm(text) ==
    Event(<< >>, None, NoTags, NoTime, [name |-> <<"stdout">>, text |-> text])

----------------------------------------------------------------------------
(* Spec: main().  Each event of the stream goes to the Start Tracker, the   *)
(* record builder with show_outcome, and the summary, in this order         *)
(* (CopyStreamResult, line 217); at the end of the stream stopTestRun       *)
(* hands the unfinished records to show_outcome and to the summary, and     *)
(* main returns.  An exception raised by show_outcome leaves stream.run,    *)
(* stopTestRun still runs (finally, 221-222), and main returns nothing.     *)

MaxEvents == 3

Events ==
    {FreeForm(<<"abc">>), FreeForm(<<"def", "\n">>)}
    \cup {Event(id, "inprogress", tags, ts, NoFile) :
            id \in {TestA, TestB}, tags \in {NoTags, <<W0>>},
            ts \in {NoTime, T1}}
    \cup {Event(id, st, <<W0>>, T2, NoFile) :
            id \in {TestA, TestB, ProcRc}, st \in {"success", "fail", "exists"}}
    \cup {Event(TestA, "fail", NoTags, T2, Traceback),
          Event(TestA, None, NoTags, T2, Traceback),
          Event(TestA, "success", NoTags, T2, Stdout),
          Event(TestA, "skip", NoTags, T2, Reason),
          Event(TestA, "skip", NoTags, T2, NoFile),
          Event(ProcRcTagged, "fail", NoTags, T2, Traceback)}

Init ==
    /\ pc = "running"
    /\ arg = << >>
    /\ ret = << >>
    /\ FreshRun

\* f without x in its domain.
Drop(f, x) == [y \in DOMAIN f \ {x} |-> f[y]]

\* result.status(ev): one event of the stream.
Status(ev) ==
    /\ pc = "running"
    /\ Len(stream) < MaxEvents
    /\ LET st == StartsStatus(neednewline, emitted, ev)
           case == CaseAfter(ev)
           so == IF Final(ev) THEN show_outcome(FAILS, RESULTS, case)
                 ELSE [FAILS |-> FAILS, RESULTS |-> RESULTS,
                       writes |-> << >>, raised |-> FALSE]
       IN  /\ neednewline' = st.neednewline
           /\ emitted' = st.emitted
           /\ output' = output \o st.writes \o so.writes
           /\ inprogress' =
                 IF ev.test_id = << >> THEN inprogress
                 ELSE IF Final(ev) THEN Drop(inprogress, ev.test_id)
                 ELSE Drop(inprogress, ev.test_id) @@ (ev.test_id :> case)
           /\ FAILS' = so.FAILS
           /\ RESULTS' = so.RESULTS
           /\ errors' = IF Final(ev) /\ ~so.raised
                        THEN errors + SummaryErrors(case) ELSE errors
           /\ records' = IF Final(ev) THEN Append(records, case) ELSE records
           /\ pc' = IF so.raised THEN "unwinding" ELSE "running"
    /\ stream' = Append(stream, ev)
    /\ UNCHANGED <<arg, ret, exitStatus>>

\* The stream ends: stream.run returns and stopTestRun begins.
EndOfStream ==
    /\ pc = "running"
    /\ pc' = "stopping"
    /\ UNCHANGED <<arg, ret, output, neednewline, emitted, inprogress, FAILS,
                   RESULTS, errors, exitStatus, stream, records>>

\* stopTestRun: one unfinished record (popitem: any of them) goes to
\* show_outcome with its end timestamp cleared, and to the summary.
Flush(key) ==
    /\ pc \in {"stopping", "unwinding"}
    /\ key \in DOMAIN inprogress
    /\ LET case == [inprogress[key] EXCEPT !.timestamps = <<@[1], NoTime>>]
           so == show_outcome(FAILS, RESULTS, case)
       IN  /\ output' = output \o so.writes
           /\ FAILS' = so.FAILS
           /\ RESULTS' = so.RESULTS
           /\ errors' = IF pc = "stopping" /\ ~so.raised
                        THEN errors + SummaryErrors(case) ELSE errors
           /\ records' = Append(records, case)
           /\ pc' = IF so.raised THEN "raised" ELSE pc
    /\ inprogress' = Drop(inprogress, key)
    /\ UNCHANGED <<arg, ret, neednewline, emitted, exitStatus, stream>>

\* main returns 0 or 1 (line 223).
Return ==
    /\ pc = "stopping"
    /\ DOMAIN inprogress = {}
    /\ exitStatus' = Append(exitStatus, ExitStatus(FAILS, errors))
    /\ pc' = "done"
    /\ UNCHANGED <<arg, ret, output, neednewline, emitted, inprogress, FAILS,
                   RESULTS, errors, stream, records>>

\* The exception of show_outcome leaves main.
Propagate ==
    /\ pc = "unwinding"
    /\ DOMAIN inprogress = {}
    /\ pc' = "raised"
    /\ UNCHANGED <<arg, ret, output, neednewline, emitted, inprogress, FAILS,
                   RESULTS, errors, exitStatus, stream, records>>

Next ==
    \/ \E ev \in Events : Status(ev)
    \/ EndOfStream
    \/ \E key \in DOMAIN inprogress : Flush(key)
    \/ Return
    \/ Propagate

Spec == Init /\ [][Next]_vars

----------------------------------------------------------------------------
(* SpecStarts: the Start Tracker alone, after startTestRun, on events of    *)
(* every shape it distinguishes.                                            *)

MaxStartsEvents == 3

StartsEvents ==
    {FreeForm(text) : text \in {<< >>, <<"abc">>, <<"def", "\n">>}}
    \cup {Event(id, st, tags, ts, NoFile) :
            id \in {TestA, TestB}, st \in {"inprogress", "success"},
            tags \in {NoTags, <<W0>>, <<Smoke>>, <<W0, W1>>},
            ts \in {NoTime, T1}}

InitStarts ==
    /\ pc = "tracking"
    /\ arg = << >>
    /\ ret = << >>
    /\ FreshRun

StartsEvent(ev) ==
    /\ pc = "tracking"
    /\ Len(stream) < MaxStartsEvents
    /\ LET st == StartsStatus(neednewline, emitted, ev)
       IN  /\ neednewline' = st.neednewline
           /\ emitted' = st.emitted
           /\ output' = output \o st.writes
    /\ stream' = Append(stream, ev)
    /\ UNCHANGED <<pc, arg, ret, inprogress, FAILS, RESULTS, errors,
                   exitStatus, records>>

NextStarts == \E ev \in StartsEvents : StartsEvent(ev)

SpecStarts == InitStarts /\ [][NextStarts]_vars

----------------------------------------------------------------------------
(* SpecOutcome: show_outcome alone, from empty FAILS and RESULTS, on        *)
(* finalized records of every shape it distinguishes.                       *)

MaxRecords == 2

Shapes ==
    {[tags |-> <<W0>>, timestamps |-> <<T1, T2>>, details |-> << >>],
     [tags |-> << >>, timestamps |-> <<T1, NoTime>>,
      details |-> <<Stdout, Traceback>>],
     [tags |-> <<Smoke, W1>>, timestamps |-> <<T1, T2>>,
      details |-> <<Reason,
                    [name |-> <<"stderr", ":", "x">>, text |-> <<"err">>],
                    [name |-> <<"stdout">>, text |-> << >>]>>],
     [tags |-> <<W1, W0>>, timestamps |-> <<NoTime, T2>>,
      details |-> <<[name |-> <<"pythonlogging", ":", "''">>,
                     text |-> <<"log">>],
                    [name |-> <<"traceback">>, text |-> << >>]>>],
     [tags |-> <<W0>>, timestamps |-> <<T1, T1>>,
      details |-> <<[name |-> <<"stderr">>, text |-> <<"e1", "\n", "e2">>],
                    Reason>>]}

Records ==
    {[id |-> id, status |-> st, tags |-> sh.tags,
      timestamps |-> sh.timestamps, details |-> sh.details] :
        id \in {TestA, TestB, ProcRc, ProcRcTagged},
        st \in {"success", "fail", "skip", "exists", "xfail"},
        sh \in Shapes}

InitOutcome ==
    /\ pc = "aggregating"
    /\ arg = << >>
    /\ ret = << >>
    /\ FreshRun

Outcome(test) ==
    /\ pc = "aggregating"
    /\ Len(records) < MaxRecords
    /\ LET so == show_outcome(FAILS, RESULTS, test)
       IN  /\ output' = output \o so.writes
           /\ FAILS' = so.FAILS
           /\ RESULTS' = so.RESULTS
           /\ pc' = IF so.raised THEN "raised" ELSE "aggregating"
    /\ records' = Append(records, test)
    /\ UNCHANGED <<arg, ret, neednewline, emitted, inprogress, errors,
                   exitStatus, stream>>

NextOutcome == \E test \in Records : Outcome(test)

SpecOutcome == InitOutcome /\ [][NextOutcome]_vars

----------------------------------------------------------------------------
(* SpecRuns: main() called again in the same process after it returned.     *)
(* Each call builds a new Start Tracker, record builder and summary (lines  *)
(* 213-218); FAILS and RESULTS are the module's globals (29-30), which no   *)
(* statement of main or show_outcome rebinds or clears.  records and stream *)
(* are those of the call at hand.                                           *)

MaxRuns == 2
MaxRunEvents == 2

RunEvents ==
    {Event(TestA, "fail", <<W0>>, T2, NoFile),
     Event(TestB, "success", <<W0>>, T2, NoFile),
     Event(TestA, "inprogress", NoTags, NoTime, NoFile),
     Event(TestA, "skip", NoTags, T2, NoFile)}

RunStatus(ev) ==
    /\ Len(stream) < MaxRunEvents
    /\ Status(ev)

\* The next call of main, up to result.startTestRun() (line 218).
MainAgain ==
    /\ pc = "done"
    /\ Len(exitStatus) < MaxRuns
    /\ pc' = "running"
    /\ neednewline' = FALSE
    /\ emitted' = {}
    /\ inprogress' = << >>
    /\ errors' = 0
    /\ stream' = << >>
    /\ records' = << >>
    /\ UNCHANGED <<arg, ret, output, FAILS, RESULTS, exitStatus>>

NextRuns ==
    \/ \E ev \in RunEvents : RunStatus(ev)
    \/ EndOfStream
    \/ \E key \in DOMAIN inprogress : Flush(key)
    \/ Return
    \/ Propagate
    \/ MainAgain

SpecRuns == Init /\ [][NextRuns]_vars

----------------------------------------------------------------------------
(* SpecWorker: the two places that read the worker of a test from its tags, *)
(* Starts.status (69-72) for the start line and find_worker (122-126) for   *)
(* the outcome line, applied to one tag collection in one iteration order.  *)
(* arg is <<tags, test id>>; the tags of a test are a Python set, so no tag *)
(* comes twice.                                                             *)

MaxTags == 3

W10 == <<"worker-", "1", "0">>
WorkerTags == {W0, W1, W10, Smoke}

TagOrders ==
    {t \in UNION {[1..n -> WorkerTags] : n \in 0..MaxTags} :
        \A i, j \in 1..Len(t) : i # j => t[i] # t[j]}

InitWorker ==
    /\ pc = "call"
    /\ arg \in TagOrders \X {TestA, TestB}
    /\ ret = << >>
    /\ FreshRun

\* The first inprogress event of the test, without a timestamp, reaches a
\* Start Tracker that has just started.
Started ==
    /\ pc = "call"
    /\ ret' = <<StartsStatus(FALSE, {},
                    Event(arg[2], "inprogress", arg[1], NoTime, NoFile)).writes>>
    /\ pc' = "started"
    /\ UNCHANGED <<arg, runVars>>

\* The record of the test, finalized as a success, reaches show_outcome.
Finished ==
    /\ pc = "started"
    /\ ret' = Append(ret,
                  show_outcome(<< >>, << >>,
                      [id |-> arg[2], status |-> "success", tags |-> arg[1],
                       details |-> << >>,
                       timestamps |-> <<NoTime, T2>>]).writes)
    /\ pc' = "finished"
    /\ UNCHANGED <<arg, runVars>>

NextWorker == Started \/ Finished

SpecWorker == InitWorker /\ [][NextWorker]_vars

----------------------------------------------------------------------------
(* Claims on the Run Driver *)

Last(s) == s[Len(s)]

\* The statuses that the summary counts as errors.
Unsuccessful(case) == case.status \in {"fail", "inprogress", "unknown"}

\* C1 as stated: when main returns, its status is 0 if and only if the
\* failure list is empty, and 1 otherwise.
C1_ExitIffNoFails ==
    pc = "done" => exitStatus = <<IF FAILS = << >> THEN 0 ELSE 1>>

\* C1 amended: when main returns, its status is 0 if and only if no record
\* handed to the Outcome Aggregator, during the stream or at its end, has
\* status fail, inprogress or unknown, and 1 otherwise; with status 0 the
\* failure list is empty, but not conversely.
C1_ExitIffSummaryClean ==
    pc = "done" =>
        /\ exitStatus =
              <<IF \E i \in 1..Len(records) : Unsuccessful(records[i])
                THEN 1 ELSE 0>>
        /\ exitStatus = <<0>> => FAILS = << >>

C1_Witness ==
    /\ pc = "done"
    /\ exitStatus = <<1>>
    /\ FAILS = << >>
    /\ \E i \in 1..Len(records) :
          records[i].id = ProcRc /\ records[i].status = "fail"

\* The start line of a test with a timestamp and a worker, as the
\* specification gives it: <iso timestamp>: (N) <id> [start].
ExpectedStartLine(ts, n, id) ==
    Isoformat(ts) \o <<": ", "(">> \o n \o <<") ">> \o id
    \o <<" [start]", "\n">>

\* C3: when the stream is an inprogress event and then a success event of
\* one test id, both tagged worker-0, with timestamps 1.0 s and 2.0 s, the
\* output holds the start line `<t1>: (0) <id> [start]` and after it the
\* outcome line `{0} <name> [1.000000s] ... ok`, and main returns 0.
C3_StartThenOk ==
    \A id \in {TestA, TestB} :
        (stream = <<Event(id, "inprogress", <<W0>>, T1, NoFile),
                    Event(id, "success", <<W0>>, T2, NoFile)>>) =>
            /\ \E i, j \in 1..Len(output) :
                  /\ i < j
                  /\ output[i] = ExpectedStartLine(T1, <<"0">>, id)
                  /\ output[j] =
                        <<"{", "0", "} ">>
                        \o (IF id = TestA THEN <<"test_a">> ELSE <<"test_b">>)
                        \o <<" [", "1", ".", "0", "0", "0", "0", "0", "0",
                             "s", "] ... ", "ok", "\n">>
            /\ pc = "done" => exitStatus = <<0>>

\* Whether a write ends a line with the word FAILED.
EndsInFailed(w) ==
    Len(w) >= 2 /\ w[Len(w) - 1] = "FAILED" /\ w[Len(w)] = "\n"

\* The last event completed a record with status fail that carries a
\* traceback attachment, and nothing was processed after it.
JustFailedWithTraceback ==
    /\ pc = "running"
    /\ stream # << >>
    /\ Final(Last(stream))
    /\ Last(records).status = "fail"
    /\ HasDetail(Last(records), <<"traceback">>)

\* C6 as stated: when a test id other than process-returncode reaches fail
\* with a traceback attachment, the output ends in FAILED and the record is
\* appended to the failure list; when main returns, its status is 1.
C6_OutputEndsInFailed ==
    /\ (JustFailedWithTraceback /\ Last(records).id # ProcRc) =>
          /\ EndsInFailed(Last(output))
          /\ FAILS # << >>
          /\ Last(FAILS) = Last(records)
    /\ (pc = "done" /\ \E i \in 1..Len(records) :
                          /\ records[i].status = "fail"
                          /\ records[i].id # ProcRc) =>
          exitStatus = <<1>>

\* C6 amended: when a test id whose normalized name is not
\* process-returncode reaches fail, the output ends with the outcome line
\* of the record, which ends in FAILED, followed only by the blocks of the
\* record's attachments that have text (a title `Captured <name>:` and the
\* indented lines); the record is appended to the failure list; when main
\* returns, its status is 1.
C6_FailedLineThenAttachments ==
    /\ (/\ pc = "running"
        /\ stream # << >>
        /\ Final(Last(stream))
        /\ Last(records).status = "fail"
        /\ Last(records).id \notin {ProcRc, ProcRcTagged}) =>
          LET rec == Last(records)
              lines == {k \in 1..Len(output) : EndsInFailed(output[k])}
              titled == {d \in 1..Len(rec.details) : rec.details[d].text # << >>}
          IN  /\ lines # {}
              /\ LET k == Greatest(lines)
                     after == SubSeq(output, k + 1, Len(output))
                 IN  /\ SubSeq(output[k], 1, 3) = <<"{", "0", "} ">>
                        \/ SubSeq(output[k], 1, 3) = <<"{", "NaN", "} ">>
                     /\ \A a \in 1..Len(after) :
                           \/ after[a][1] = "    "
                           \/ SubSeq(after[a], 1, 2) = <<"\n", "Captured ">>
                     /\ Cardinality({a \in 1..Len(after) :
                                        after[a][1] = "\n"})
                           = Cardinality(titled)
                     /\ (titled = {} <=> k = Len(output))
              /\ FAILS # << >>
              /\ Last(FAILS) = rec
    /\ (pc = "done" /\ \E i \in 1..Len(records) : records[i].status = "fail")
          => exitStatus = <<1>>

C6_Witness ==
    /\ pc = "done"
    /\ exitStatus = <<1>>
    /\ Len(stream) = 1
    /\ stream[1] = Event(TestA, "fail", NoTags, T2, Traceback)
    /\ FAILS = records
    /\ Len(output) = 4
    /\ EndsInFailed(output[1])
    /\ output[4] = <<"    ", "boom", "\n">>

----------------------------------------------------------------------------
(* Claims on the Start Tracker *)

\* The event that the step reads.
Read == stream'[Len(stream')]

\* Whether a write is the start line of a test id: ... <id> [start].
IsStartLineOf(w, id) ==
    /\ Len(w) >= Len(id) + 3
    /\ SubSeq(w, Len(w) - 1, Len(w)) = <<" [start]", "\n">>
    /\ SubSeq(w, Len(w) - 1 - Len(id), Len(w) - 2) = id
    /\ w[Len(w) - 2 - Len(id)] \in {": ", ") "}

StartLines(out, id) == Cardinality({i \in 1..Len(out) : IsStartLineOf(out[i], id)})

\* C4: an event that carries a test id, has status inprogress and whose id
\* is not in the emitted set writes, after the pending newline if there is
\* one, exactly one line `<timestamp-or-empty>: <worker-label><id> [start]`
\* (the ISO timestamp when the event has one) and adds the id to the
\* emitted set, with and without a timestamp.
C4_FirstInprogressWritesStartLine ==
    [][(/\ Len(stream') = Len(stream) + 1
        /\ Read.test_id # << >>
        /\ Read.test_status = "inprogress"
        /\ Read.test_id \notin emitted) =>
          /\ emitted' = emitted \cup {Read.test_id}
          /\ \E label \in {<< >>, <<"(", "0", ") ">>, <<"(", "1", ") ">>} :
                output' = output
                    \o (IF neednewline THEN << <<"\n">> >> ELSE << >>)
                    \o <<(IF Read.timestamp = NoTime THEN << >>
                          ELSE Isoformat(Read.timestamp))
                         \o <<": ">> \o label \o Read.test_id
                         \o <<" [start]", "\n">>        >>
      ]_vars

\* C5: no test id has more than one start line in the output; an
\* inprogress event of an id in the emitted set writes no start line for
\* it, whatever its tags and timestamp; the emitted set never shrinks.
C5_AtMostOneStartLine ==
    [][/\ emitted \subseteq emitted'
       /\ \A id \in {TestA, TestB} :
             /\ StartLines(output', id) <= 1
             /\ id \in emitted => StartLines(output', id) = StartLines(output, id)
      ]_vars

C5_Witness ==
    /\ Len(stream) = 3
    /\ \A i \in 1..3 : stream[i].test_id = TestA
    /\ \A i \in 1..3 : stream[i].test_status = "inprogress"
    /\ stream[1].timestamp = NoTime
    /\ stream[2] # stream[1]
    /\ stream[3].timestamp = NoTime
    /\ stream[3].test_tags # stream[1].test_tags
    /\ StartLines(output, TestA) = 1
    /\ emitted = {TestA}

----------------------------------------------------------------------------
(* Claims on the Outcome Aggregator *)

\* The sum of the sizes of the buckets of RESULTS.
RECURSIVE SumLen(_, _)
SumLen(R, ws) ==
    IF ws = {} THEN 0
    ELSE LET w == CHOOSE x \in ws : TRUE
         IN  Len(R[w]) + SumLen(R, ws \ {w})

BucketTotal == SumLen(RESULTS, DOMAIN RESULTS)

DistinctIds ==
    \A i, j \in 1..Len(records) : i # j => records[i].id # records[j].id

\* C2 as stated: after the records of N distinct test ids, the sum of the
\* sizes of the buckets is N minus the number of records whose id is
\* process-returncode or whose status is exists.
C2_BucketsExcludeReturncode ==
    DistinctIds =>
        BucketTotal = Len(records)
            - Cardinality({i \in 1..Len(records) :
                              \/ records[i].id = ProcRc
                              \/ records[i].status = "exists"})

\* C2 amended: after any records (so also those of N distinct test ids),
\* the sum of the sizes of the buckets is their number minus the number of
\* records whose status is exists; a process-returncode record is in the
\* bucket of its worker like any other.
C2_BucketsExcludeExists ==
    /\ BucketTotal = Len(records)
          - Cardinality({i \in 1..Len(records) : records[i].status = "exists"})
    /\ \A i \in 1..Len(records) :
          records[i].status # "exists" =>
              \E w \in DOMAIN RESULTS : \E k \in 1..Len(RESULTS[w]) :
                  RESULTS[w][k] = records[i]

C2_Witness ==
    /\ Len(records) = 2
    /\ DistinctIds
    /\ records[1].id = ProcRc
    /\ records[1].status = "fail"
    /\ records[1].tags = << >>
    /\ records[2].status = "exists"
    /\ BucketTotal = 1
    /\ RESULTS[NaN] = <<records[1]>>

\* An attachment name up to its first colon.
UpToColon(name) ==
    IF Positions(name, ":") = {} THEN name
    ELSE SubSeq(name, 1, Least(Positions(name, ":")) - 1)

\* Whether a write is the title of the block of an attachment name.
IsTitleOf(w, name) ==
    /\ Len(w) >= Len(name) + 4
    /\ SubSeq(w, 1, Len(name) + 4) = <<"\n", "Captured ">> \o name \o <<":", "\n">>

----------------------------------------------------------------------------
(* Claims on the Name Normalizer *)

Count(s, c) == Cardinality({i \in 1..Len(s) : s[i] = c})

AtMostOneOfEach(s) == \A c \in {"[", "]", "(", ")"} : Count(s, c) <= 1

\* C8 as stated: normalizing the output of the normalizer again, with the
\* same switches, returns that output unchanged, for every identifier.
C8_Idempotent == pc = "twice" => ret[2] = ret[1]

\* C8 amended: normalizing the output again returns it unchanged for every
\* identifier in which each of the characters [ ] ( ) occurs at most once.
C8_IdempotentSingleSpan ==
    (pc = "twice" /\ AtMostOneOfEach(arg[1])) => ret[2] = ret[1]

C8_Witness ==
    /\ pc = "twice"
    /\ AtMostOneOfEach(arg[1])
    /\ arg[2]
    /\ arg[3]
    /\ Len(ret[1]) + 4 = Len(arg[1])
    /\ arg[1][1] = "a"
    /\ ret[2] = ret[1]

\* s without its elements i..j (1-based, inclusive).
Without(s, i, j) == [k \in 1..(Len(s) - (j - i + 1)) |->
                        IF k < i THEN s[k] ELSE s[k + (j - i + 1)]]

\* C9 as stated (tag-stripping on, scenario-stripping off): when the first
\* [ is not the first character and some ] comes after it, the span from
\* that [ to the next ] after it is removed; when the [ is the first
\* character or no ] comes after it, the identifier is returned unchanged.
C9_StripAnyLaterClose ==
    (pc = "once" /\ arg[2] /\ ~arg[3] /\ Positions(arg[1], "[") # {}) =>
        LET name == arg[1]
            open == Least(Positions(name, "["))
            later == {j \in Positions(name, "]") : j > open}
        IN  IF open > 1 /\ later # {}
            THEN ret[1] = Without(name, open, Least(later))
            ELSE ret[1] = name

\* C9 amended: the span is removed when the first [ is not the first
\* character and the first ] of the identifier comes after it; otherwise
\* (no [, the [ first, no ], or the first ] before the first [) the
\* identifier is returned unchanged.
C9_StripFirstClose ==
    (pc = "once" /\ arg[2] /\ ~arg[3]) =>
        LET name == arg[1]
            opens == Positions(name, "[")
            closes == Positions(name, "]")
        IN  IF opens # {} /\ closes # {} /\ Least(opens) > 1
               /\ Least(closes) > Least(opens)
            THEN ret[1] = Without(name, Least(opens), Least(closes))
            ELSE ret[1] = name

C9_Witness ==
    /\ pc = "once"
    /\ arg[2]
    /\ ~arg[3]
    /\ Len(arg[1]) = 5
    /\ arg[1][2] = "[" /\ arg[1][4] = "]"
    /\ ret[1] = <<arg[1][1], arg[1][5]>>

----------------------------------------------------------------------------
(* Claims on the Duration Formatter *)

\* start <= end, for two datetimes.
NotAfter(start, end) ==
    \/ start.day < end.day
    \/ start.day = end.day /\ start.sec < end.sec
    \/ start.day = end.day /\ start.sec = end.sec /\ start.us <= end.us

\* C10: get_duration returns '' when either timestamp is absent; for
\* start <= end it returns S.UUUUUUs where S is the whole number of elapsed
\* seconds, whole days included, in decimal without a sign, and UUUUUU the
\* six digits of the remaining microseconds: start plus S seconds and U
\* microseconds is end.  Equal timestamps give 0.000000s.
C10_DurationFormat ==
    pc = "formatted" =>
        LET start == arg[1]
            end == arg[2]
            r == ret[1]
            dot == Find(r, ".")
            S == SliceTo(r, dot)
            U == SubSeq(r, dot + 2, Len(r) - 1)
        IN  IF start = NoTime \/ end = NoTime
            THEN r = << >>
            ELSE NotAfter(start, end) =>
                 /\ dot >= 1 /\ r[Len(r)] = "s"
                 /\ \A i \in 1..Len(S) : IsDigit(S[i])
                 /\ Len(S) > 1 => S[1] # "0"
                 /\ Len(U) = 6
                 /\ \A i \in 1..6 : IsDigit(U[i])
                 /\ LET carry == (end.day - start.day) * DAY_SECONDS
                                  + (end.sec - start.sec) - DigitsValue(S)
                    IN  /\ carry \in {0, 1}
                        /\ DigitsValue(U) =
                               (end.us - start.us) + carry * MICROS
                 /\ (start = end =>
                        r = <<"0", ".", "0", "0", "0", "0", "0", "0", "s">>)

C10_Witness ==
    /\ pc = "formatted"
    /\ arg[1] # NoTime /\ arg[2] # NoTime
    /\ arg[1].day < arg[2].day /\ arg[1].sec = arg[2].sec
    /\ arg[1].us < arg[2].us
    /\ ret[1] = <<"8", "6", "4", "0", "0", ".",
                  "9", "9", "9", "9", "9", "8", "s">>

----------------------------------------------------------------------------
(* Claims on the Outcome Aggregator: errors and unknown statuses *)

\* C11: show_outcome never aborts: whatever the status and the attachments
\* of the records processed so far (a skip record with or without a reason
\* attachment included), each call completed and the aggregator goes on
\* with the next record.
C11_OutcomeNeverAborts == pc = "aggregating"

\* A step that hands one more record to show_outcome, and that record.
Processed == Len(records') = Len(records) + 1
Rec == records'[Len(records')]

\* A status that is none of success, fail, skip, exists.
UnknownStatus(test) == test.status \notin {"success", "fail", "skip", "exists"}

\* The worker of the tags as text: the digits of the first worker- tag in
\* iteration order, NaN when there is none.
WorkerText(tags) ==
    LET ws == {i \in 1..Len(tags) : tags[i][1] = "worker-"}
    IN  IF ws = {} THEN <<"NaN">> ELSE Tail(tags[Least(ws)])

\* The step writes the record under its own status word: the line
\* `{worker} name [duration] ... <status>`, then one titled block for each
\* attachment with text and nothing else.
WrittenUnderItsStatus ==
    LET new == SubSeq(output', Len(output) + 1, Len(output'))
        filled == {i \in 1..Len(Rec.details) : Rec.details[i].text # << >>}
    IN  /\ new # << >>
        /\ new[1] = <<"{">> \o WorkerText(Rec.tags) \o <<"} ">>
                    \o cleanup_test_name(Rec.id, TRUE, FALSE) \o <<" [">>
                    \o get_duration(Rec.timestamps)
                    \o <<"] ... ", Rec.status, "\n">>
        /\ \A i \in filled : \E k \in 2..Len(new) :
              IsTitleOf(new[k], UpToColon(Rec.details[i].name))
        /\ Cardinality({k \in 2..Len(new) : new[k][1] = "\n"})
              = Cardinality(filled)

\* The step appends the record to the bucket of its worker, leaves the
\* other buckets alone and leaves the failure list alone.
BucketedNotFailed ==
    LET w == find_worker(Rec)
    IN  /\ w \in DOMAIN RESULTS'
        /\ RESULTS'[w] =
              Append(IF w \in DOMAIN RESULTS THEN RESULTS[w] ELSE << >>, Rec)
        /\ \A v \in DOMAIN RESULTS' \ {w} :
              v \in DOMAIN RESULTS /\ RESULTS'[v] = RESULTS[v]
        /\ FAILS' = FAILS

\* C12 as stated: a record with an unknown status is written as
\* `{worker} name [duration] ... <status>` with all its attachments that
\* have text, is appended to the bucket of its worker and is not appended
\* to the failure list.
C12_UnknownStatusWritten ==
    [][(Processed /\ UnknownStatus(Rec)) =>
          (WrittenUnderItsStatus /\ BucketedNotFailed)]_vars

\* C12 amended: a record with an unknown status is appended to the bucket
\* of its worker and not to the failure list; it is written as
\* `{worker} name [duration] ... <status>` with all its attachments that
\* have text unless its normalized name is process-returncode, and then
\* nothing is written for it.
C12_UnknownStatusWrittenUnlessReturncode ==
    [][(Processed /\ UnknownStatus(Rec)) =>
          /\ BucketedNotFailed
          /\ IF cleanup_test_name(Rec.id, TRUE, FALSE) = ProcRc
             THEN output' = output
             ELSE WrittenUnderItsStatus]_vars

C12_Witness ==
    /\ Len(records) = 1
    /\ records[1].status = "xfail"
    /\ records[1].id = TestB
    /\ records[1].tags = <<W1, W0>>
    /\ Len(output) = 3
    /\ output[1] = <<"{", "1", "} ", "test_b", " [", "] ... ", "xfail", "\n">>
    /\ IsTitleOf(output[2], <<"pythonlogging">>)
    /\ output[3] = <<"    ", "log", "\n">>
    /\ FAILS = << >>
    /\ RESULTS = (1 :> records)

----------------------------------------------------------------------------
(* Claims on the tally: the failure list and the buckets *)

\* A record that counts as a failure: status fail and a normalized name
\* other than process-returncode.
CountsAsFailure(test) ==
    test.status = "fail" /\ cleanup_test_name(test.id, TRUE, FALSE) # ProcRc

\* C13: in a run that starts with the failure list as the module creates
\* it, the failure list is at every step the sequence of the records
\* processed so far that have status fail and a normalized name other than
\* process-returncode, in the order they were processed; no other record
\* adds to it, and a step only ever appends to it.
C13_FailsAreTheFailedRecords ==
    [][/\ Len(FAILS') >= Len(FAILS)
       /\ SubSeq(FAILS', 1, Len(FAILS)) = FAILS
       /\ FAILS' = SelectSeq(records', CountsAsFailure)]_vars

C13_Witness ==
    /\ Len(records) = 2
    /\ records[1].id = TestB
    /\ records[2].id = TestA
    /\ records[1].status = "fail"
    /\ records[2].status = "fail"
    /\ records[1].tags # records[2].tags
    /\ FAILS = records

\* C14: a record with status exists changes nothing: the failure list,
\* every bucket and the set of bucket keys, and the output are after the
\* call what they were before it.
C14_ExistsIsNoOp ==
    [][(Processed /\ Rec.status = "exists") =>
          /\ FAILS' = FAILS
          /\ DOMAIN RESULTS' = DOMAIN RESULTS
          /\ \A w \in DOMAIN RESULTS : RESULTS'[w] = RESULTS[w]
          /\ output' = output]_vars

C14_Witness ==
    /\ Len(records) = 2
    /\ records[1].status = "fail"
    /\ records[1].id = TestA
    /\ records[1].tags = <<W0>>
    /\ records[2].status = "exists"
    /\ records[2].id = TestB
    /\ records[2].tags = << >>
    /\ records[2].details # << >>
    /\ FAILS = <<records[1]>>
    /\ DOMAIN RESULTS = {0}
    /\ RESULTS[0] = <<records[1]>>
    /\ Last(output)[Len(Last(output)) - 1] = "FAILED"

----------------------------------------------------------------------------
(* Claims on the pending newline *)

\* The free-form texts of the streams, and whether a write is one of them.
FreeFormTexts == {<<"abc">>, <<"def", "\n">>}
IsFreeForm(w) == w \in FreeFormTexts

\* Whether a text stops short of a line terminator.
Unterminated(text) == text # << >> /\ text[Len(text)] \notin {"\r", "\n"}

\* C15: in the output of a run, an unterminated free-form text is followed
\* either by more free-form text or by a newline: the start line or the
\* outcome line written next never continues it on the same output line.
C15_NextLineAfterNewline ==
    \A i \in 1..(Len(output) - 1) :
        (IsFreeForm(output[i]) /\ Unterminated(output[i])) =>
            (IsFreeForm(output[i + 1]) \/ output[i + 1] = <<"\n">>)

----------------------------------------------------------------------------
(* Claims on runs in one process *)

\* The records in the buckets of RESULTS, as a set.
InBuckets(R) == UNION {{R[w][k] : k \in 1..Len(R[w])} : w \in DOMAIN R}

\* C16: when main is called again after it returned, the call starts with
\* an empty failure list and no buckets, and when it returns the failure
\* list holds the failed records of this call and the buckets hold only
\* records of this call.
C16_RunsDoNotInterfere ==
    /\ (pc = "running" /\ stream = << >>) =>
          (FAILS = << >> /\ DOMAIN RESULTS = {})
    /\ pc = "done" =>
          /\ FAILS = SelectSeq(records, CountsAsFailure)
          /\ InBuckets(RESULTS) \subseteq {records[i] : i \in 1..Len(records)}

----------------------------------------------------------------------------
(* Further claims on the Start Tracker *)

\* The events that the Start Tracker has nothing to do for: one with a
\* test id and a status other than inprogress, an inprogress one whose id
\* is in the emitted set, one with no test id and no attachment bytes.
Ignorable(ev, em) ==
    \/ ev.test_id # << >> /\ ev.test_status # "inprogress"
    \/ ev.test_id # << >> /\ ev.test_status = "inprogress" /\ ev.test_id \in em
    \/ ev.test_id = << >> /\ ev.file_bytes = << >>

\* C17: such an event leaves the output, the emitted set and the
\* pending-newline flag as they were.
C17_OtherEventsIgnored ==
    [][(Len(stream') = Len(stream) + 1 /\ Ignorable(Read, emitted)) =>
          /\ output' = output
          /\ emitted' = emitted
          /\ neednewline' = neednewline]_vars

C17_Witness ==
    /\ Len(stream) = 3
    /\ stream[1] = FreeForm(<<"abc">>)
    /\ stream[2].test_id = TestB
    /\ stream[2].test_status = "success"
    /\ stream[2].test_tags = <<W0>>
    /\ stream[3] = FreeForm(<< >>)
    /\ output = << <<"abc">> >>
    /\ emitted = {}
    /\ neednewline

----------------------------------------------------------------------------
(* Claims on the worker of a test *)

\* C18: for every tag collection and iteration order, the start line and
\* the outcome line of a test name the same worker, the one of the first
\* worker- tag in iteration order: `(N) ` in the start line and `{N}` in
\* the outcome line; with no worker- tag the start line has no label and
\* the outcome line names the unassigned worker.
C18_WorkersAgree ==
    pc = "finished" =>
        LET tags == arg[1]
            id == arg[2]
            ws == {i \in 1..Len(tags) : tags[i][1] = "worker-"}
            start == ret[1][1]
            outcome == ret[2][1]
        IN  IF ws = {}
            THEN /\ start = <<": ">> \o id \o <<" [start]", "\n">>
                 /\ SubSeq(outcome, 1, 3) = <<"{", "NaN", "} ">>
            ELSE LET N == Tail(tags[Least(ws)])
                 IN  /\ start = <<": ", "(">> \o N \o <<") ">> \o id
                                \o <<" [start]", "\n">>
                     /\ SubSeq(outcome, 1, Len(N) + 2)
                           = <<"{">> \o N \o <<"} ">>

----------------------------------------------------------------------------
(* Further claims on the tally *)

\* C19: in a run that started with an empty tally, every record of the
\* failure list is in the bucket of the worker that its tags resolve to,
\* and every bucket of the mapping holds at least one record.
C19_FailsAreBucketed ==
    /\ \A i \in 1..Len(FAILS) :
          LET w == find_worker(FAILS[i])
          IN  /\ w \in DOMAIN RESULTS
              /\ \E k \in 1..Len(RESULTS[w]) : RESULTS[w][k] = FAILS[i]
    /\ \A w \in DOMAIN RESULTS : RESULTS[w] # << >>

C19_Witness ==
    /\ Len(records) = 2
    /\ records[1].status = "fail"
    /\ records[1].id = TestA
    /\ records[1].tags = << >>
    /\ records[2].status = "fail"
    /\ records[2].id = TestB
    /\ records[2].tags = <<Smoke, W1>>
    /\ FAILS = records
    /\ DOMAIN RESULTS = {NaN, 1}
    /\ RESULTS[NaN] = <<records[1]>>
    /\ RESULTS[1] = <<records[2]>>

----------------------------------------------------------------------------
(* Further claims on the pending newline *)

\* C20: whenever the pending-newline flag is set, the free-form text
\* written last is unterminated; and the separator newline is written only
\* after a write that does not end in a line terminator, so it never makes
\* a blank line.
C20_FlagOnlyAfterUnterminatedText ==
    /\ neednewline =>
          LET texts == {i \in 1..Len(output) : IsFreeForm(output[i])}
          IN  texts # {} /\ Unterminated(output[Greatest(texts)])
    /\ \A i \in 1..Len(output) :
          output[i] = <<"\n">> => (i > 1 /\ Unterminated(output[i - 1]))

=============================================================================
